---- MODULE Spec2Model ----
(***************************************************************************)
(* Revisioned document storage of doc-keeper (backend/apps/files and       *)
(* backend/apps/authentication): documents per (owner, url), numbered      *)
(* revisions, stored blobs and the per-user storage_used counter.          *)
(*                                                                         *)
(* Every request handler is split at its database and storage accesses:    *)
(* each step below is one query, one INSERT/UPDATE/DELETE or one storage   *)
(* call, so that requests of several workers interleave as they do under   *)
(* Django's autocommit mode.                                               *)
(***************************************************************************)
EXTENDS Integers, FiniteSets, Sequences, TLC

(* ------------------------------ bounds --------------------------------- *)
MaxOps == 3      \* requests started in the concurrent specification
MaxSeqOps == 3   \* requests started in the sequential specification
MaxSize == 2     \* largest uploaded file, in bytes
Limit == 3       \* storage_limit of every profile, in bytes
MaxQ == 4        \* largest used / limit / size given to the quota checks
MaxRevs == 3     \* revisions of the document retention starts from
MaxKeep == 2     \* largest keep_count
MaxRetOps == 2   \* retention runs and deletions started
MaxSoftOps == 4  \* uploads of the owner whose limit is raced for

Workers == {"w1", "w2"}
SeqWorker == "w1"
Users == {"alice", "bob"}
Urls == {"/a", "/b"}
Names == {"/a", "memo"}
ConcUrls == {"/a"}
ConcNames == {"memo"}
Filename == "f.txt"        \* name of every uploaded file
FileObject == "<file>"     \* an UploadedFile object where a string is expected
None == "None"
NoDoc == 0
NoFile == [doc |-> 0, num |-> 0, alt |-> 0]

(* file_obj.size of the uploads: one byte, the largest file; and the empty *)
(* file that validate_file_size rejects                                   *)
Sizes == {1, MaxSize}

SizesOrEmpty == {0} \cup Sizes

VARIABLES
    docs,          \* FileDocument rows: [id, owner, url, name]
    revs,          \* FileRevision rows: [id, doc, num, size, file]; sent: the bytes
                   \* uploaded when the row was created (history)
    blobs,         \* names of the files present in storage
    contents,      \* what was last written under each name: [file, bytes, len];
                   \* the bytes of an uploaded file are identified by its length
    storage_used,  \* UserProfile.storage_used per user
    nextDocId,     \* AutoField sequence of FileDocument
    nextRevId,     \* AutoField sequence of FileRevision
    pc,            \* position of each worker inside its request
    loc,           \* local variables of each worker's request
    ops,           \* number of requests started so far
    assigned,      \* history: every (doc, num, rev id) ever inserted
    q,             \* inputs of the quota checks: [used, limit, size]
    qres           \* results of the quota checks applied to q

vars == <<docs, revs, blobs, contents, storage_used, nextDocId, nextRevId, pc, loc, ops, assigned, q, qres>>

db == <<docs, revs, blobs, contents, storage_used, nextDocId, nextRevId, assigned>>

(* ------------------------------ helpers -------------------------------- *)
RECURSIVE SumSizes(_)
SumSizes(S) ==
    IF S = {} THEN 0
    ELSE LET r == CHOOSE x \in S : TRUE IN r.size + SumSizes(S \ {r})

Max(S) == CHOOSE x \in S : \A y \in S : y <= x

storage_limit == [u \in Users |-> Limit]

(* a run of retention: its level ("document" or "user"), target and        *)
(* keep_count; and what is remembered of the run before it                 *)
noRun == [level |-> None, doc |-> NoDoc, user |-> None, keep |-> 0]

noPrev == [run |-> noRun, failed |-> FALSE, deleted |-> 0]

(* the request as the client sent it *)
noReq == [url |-> None, name |-> None]

idleLoc == [op |-> None, user |-> None, url |-> None, name |-> None, size |-> 0,
            isfile |-> TRUE, doc |-> NoDoc, rev |-> 0, num |-> 0, file |-> NoFile,
            used |-> 0, sum |-> 0, created |-> FALSE, missed |-> FALSE,
            urls |-> <<>>, count |-> 0, errors |-> 0,
            result |-> None, avail |-> 0,
            req |-> noReq, had |-> {}, freed |-> 0,
            run |-> noRun, todo |-> <<>>, left |-> {}, total |-> 0,
            failed |-> FALSE, prev |-> noPrev,
            bytes |-> 0, file_size |-> 0, body |-> 0, listed |-> <<>>, want |-> 0 - 1]

noQ == [used |-> 0, limit |-> 0, size |-> 0]

notCalled == [done |-> FALSE, ok |-> FALSE, available |-> 0]

Returned(ok, available) == [done |-> TRUE, ok |-> ok, available |-> available]

noQres == [can_upload_file |-> notCalled, check_quota_available |-> notCalled,
           validate_user_storage_limit |-> notCalled, check_user_storage_limit |-> notCalled,
           StorageQuotaPermission |-> notCalled, get_quota_status |-> notCalled]

(* FileDocument.objects.get(owner=user, url=url)                          *)
DocsAtAnyOwner(ds, u, url) == {d \in ds : d.url = url}

DocsAt(ds, u, url) == {d \in ds : d.owner = u /\ d.url = url}

DocById(ds, id) == CHOOSE d \in ds : d.id = id

(* document.revisions / FileRevision.objects.filter(document=document)     *)
RevsOfAnyDocument(rs, id) == rs

RevsOf(rs, id) == {r \in rs : r.doc = id}

RevsOfUser(ds, rs, u) == {r \in rs : \E d \in ds : d.id = r.doc /\ d.owner = u}

(* FileDocument.Meta.unique_together = ['owner', 'url']: may this row be   *)
(* inserted?                                                               *)
UniqueOwnerUrlNone(ds, u, url) == TRUE

UniqueOwnerUrl(ds, u, url) == DocsAt(ds, u, url) = {}

(* FileRevision.Meta.unique_together = ['document', 'revision_number'] and *)
(* the foreign key to the document.                                        *)
UniqueDocNumNone(ds, rs, id, n) == \E d \in ds : d.id = id

UniqueDocNum(ds, rs, id, n) ==
    /\ \E d \in ds : d.id = id
    /\ \A r \in rs : ~(r.doc = id /\ r.num = n)

(* FileRevision.save / RevisionManager.get_next_revision_number            *)
NextRevisionNumberFromOne(rs, id) ==
    IF RevsOf(rs, id) = {} THEN 1
    ELSE Max({r.num : r \in RevsOf(rs, id)}) + 1

NextRevisionNumber(rs, id) ==
    IF RevsOf(rs, id) = {} THEN 0
    ELSE Max({r.num : r \in RevsOf(rs, id)}) + 1

(* user_file_path followed by Storage.get_available_name: the name built   *)
(* from document id and revision number, given a suffix when taken.        *)
AvailableName(bs, id, n) ==
    LET k == CHOOSE k \in 0..Cardinality(bs) :
                 /\ [doc |-> id, num |-> n, alt |-> k] \notin bs
                 /\ \A j \in 0..(k - 1) : [doc |-> id, num |-> n, alt |-> j] \in bs
    IN [doc |-> id, num |-> n, alt |-> k]

(* utils.calculate_user_storage_usage: revisions with file data only       *)
calculate_storage_usage_of_all(ds, rs, u) ==
    SumSizes({r \in rs : r.file # NoFile})

calculate_user_storage_usage(ds, rs, u) ==
    SumSizes({r \in RevsOfUser(ds, rs, u) : r.file # NoFile})

(* StorageQuotaManager.update_user_quota: the value it computes            *)
update_user_quota(ds, rs, u) == SumSizes(RevsOfUser(ds, rs, u))

(* ------------------------------- Init ---------------------------------- *)
Init ==
    /\ docs = {}
    /\ revs = {}
    /\ blobs = {}
    /\ contents = {}
    /\ storage_used = [u \in Users |-> 0]
    /\ nextDocId = 1
    /\ nextRevId = 1
    /\ pc = [w \in Workers |-> "idle"]
    /\ loc = [w \in Workers |-> idleLoc]
    /\ ops = 0
    /\ assigned = {}
    /\ q = noQ
    /\ qres = noQres

Goto(w, label) == pc' = [pc EXCEPT ![w] = label]

Finish(w, res) ==
    /\ pc' = [pc EXCEPT ![w] = "idle"]
    /\ loc' = [loc EXCEPT ![w] = [idleLoc EXCEPT !.result = res]]

FinishAvail(w, res, a) ==
    /\ pc' = [pc EXCEPT ![w] = "idle"]
    /\ loc' = [loc EXCEPT ![w] = [idleLoc EXCEPT !.result = res, !.avail = a]]

(* ------------------- utils.create_file_document ------------------------ *)
CreateFileDocumentStart(w, u, url, name, size) ==
    /\ pc[w] = "idle"
    /\ ops' = ops + 1
    /\ loc' = [loc EXCEPT ![w] = [idleLoc EXCEPT !.op = "create_file_document",
                                  !.user = u, !.url = url, !.name = name, !.size = size,
                                  !.bytes = size,
                                  !.req = [url |-> url, name |-> name]]]
    /\ Goto(w, "goc_get")
    /\ UNCHANGED <<db, q, qres>>

(* The document a lookup returns stays in the request's memory: its id and *)
(* whether its name differs from the supplied one (name = None: no change  *)
(* wanted or needed). had keeps the revisions it had at that moment.       *)
FetchedKeepingName(l, d) ==
    [l EXCEPT !.doc = d.id, !.created = FALSE, !.name = None,
              !.had = RevsOf(revs, d.id)]

Fetched(l, d) ==
    [l EXCEPT !.doc = d.id, !.created = FALSE,
              !.name = IF l.name # None /\ d.name # l.name THEN l.name ELSE None,
              !.had = RevsOf(revs, d.id)]

(* CharField.get_prep_value: str() of whatever was assigned to the field   *)
StrOf(name) == IF name = FileObject THEN Filename ELSE name

(* QuerySet.get_or_create: the first lookup by (owner, url)                *)
GetOrCreateGet(w) ==
    /\ pc[w] = "goc_get"
    /\ IF DocsAt(docs, loc[w].user, loc[w].url) # {}
       THEN /\ loc' = [loc EXCEPT ![w] = Fetched(loc[w], CHOOSE d \in DocsAt(docs, loc[w].user, loc[w].url) : TRUE)]
            /\ Goto(w, "name_update")
       ELSE /\ loc' = [loc EXCEPT ![w].missed = TRUE]
            /\ Goto(w, "goc_create")
    /\ UNCHANGED <<db, ops, q, qres>>

(* QuerySet.get_or_create: the INSERT inside atomic()                      *)
GetOrCreateCreate(w) ==
    /\ pc[w] = "goc_create"
    /\ IF UniqueOwnerUrl(docs, loc[w].user, loc[w].url)
       THEN /\ docs' = docs \cup {[id |-> nextDocId, owner |-> loc[w].user,
                                   url |-> loc[w].url, name |-> StrOf(loc[w].name)]}
            /\ nextDocId' = nextDocId + 1
            /\ loc' = [loc EXCEPT ![w].doc = nextDocId, ![w].created = TRUE]
            /\ Goto(w, "name_update")
       ELSE /\ Goto(w, "goc_reget")
            /\ UNCHANGED <<docs, nextDocId, loc>>
    /\ UNCHANGED <<revs, blobs, contents, storage_used, nextRevId, assigned, ops, q, qres>>

(* QuerySet.get_or_create: except IntegrityError: the second lookup, and   *)
(* the error raised again when that finds nothing                          *)
GetOrCreateRaise(w) ==
    /\ pc[w] = "goc_reget"
    /\ Finish(w, "IntegrityError(document)")
    /\ UNCHANGED <<db, ops, q, qres>>

GetOrCreateReget(w) ==
    /\ pc[w] = "goc_reget"
    /\ IF DocsAt(docs, loc[w].user, loc[w].url) # {}
       THEN /\ loc' = [loc EXCEPT ![w] = Fetched(loc[w], CHOOSE d \in DocsAt(docs, loc[w].user, loc[w].url) : TRUE)]
            /\ Goto(w, "name_update")
       ELSE Finish(w, "IntegrityError(document)")
    /\ UNCHANGED <<db, ops, q, qres>>

(* create_file_document: if not created and document.name != name, save    *)
(* the document; then the arguments of FileRevision.objects.create are     *)
(* evaluated, and file_obj.name raises AttributeError when file_obj is not *)
(* a file (the exception reaches the view, which answers 500).             *)
NameUpdate(w) ==
    /\ pc[w] = "name_update"
    /\ IF ~loc[w].created /\ loc[w].name # None
       THEN docs' = {IF d.id = loc[w].doc THEN [d EXCEPT !.name = StrOf(loc[w].name)] ELSE d : d \in docs}
       ELSE docs' = docs
    /\ IF loc[w].isfile
       THEN /\ Goto(w, "rev_number")
            /\ UNCHANGED loc
       ELSE Finish(w, "UploadFailed")
    /\ UNCHANGED <<revs, blobs, contents, storage_used, nextDocId, nextRevId, assigned, ops, q, qres>>

(* ------------- FileRevision.objects.create -> FileRevision.save -------- *)
(* save(): the query for the last revision and the number derived from it  *)
RevisionNumber(w) ==
    /\ pc[w] = "rev_number"
    /\ loc' = [loc EXCEPT ![w].num = NextRevisionNumber(revs, loc[w].doc)]
    /\ Goto(w, "rev_file")
    /\ UNCHANGED <<db, ops, q, qres>>

(* Storage.save(name, content): the bytes now stored under the name        *)
Written(cs, f, bytes, len) ==
    {c \in cs : c.file # f} \cup {[file |-> f, bytes |-> bytes, len |-> len]}

(* FileRevision.save: if self.file_data and not self.file_size:            *)
(*     self.file_size = self.file_data.size                                *)
file_size(given, len) == IF given = 0 THEN len ELSE given

(* FileField.pre_save: the file is written to storage before the INSERT    *)
RevisionFile(w) ==
    /\ pc[w] = "rev_file"
    /\ LET f == AvailableName(blobs, loc[w].doc, loc[w].num) IN
         /\ blobs' = blobs \cup {f}
         /\ contents' = Written(contents, f, loc[w].bytes, loc[w].size)
         /\ loc' = [loc EXCEPT ![w].file = f]
    /\ Goto(w, "rev_insert")
    /\ UNCHANGED <<docs, revs, storage_used, nextDocId, nextRevId, assigned, ops, q, qres>>

(* super().save(): INSERT under the unique constraint                      *)
RevisionInsert(w) ==
    /\ pc[w] = "rev_insert"
    /\ IF UniqueDocNum(docs, revs, loc[w].doc, loc[w].num)
       THEN /\ revs' = revs \cup {[id |-> nextRevId, doc |-> loc[w].doc, num |-> loc[w].num,
                                   size |-> file_size(loc[w].file_size, loc[w].size),
                                   file |-> loc[w].file, sent |-> loc[w].bytes]}
            /\ nextRevId' = nextRevId + 1
            /\ assigned' = assigned \cup {[doc |-> loc[w].doc, num |-> loc[w].num, rev |-> nextRevId]}
            /\ Goto(w, "signal_quota")
            /\ UNCHANGED loc
       ELSE /\ Finish(w, IF loc[w].op = "put" THEN "UploadFailed" ELSE "IntegrityError(revision)")
            /\ UNCHANGED <<revs, nextRevId, assigned>>
    /\ UNCHANGED <<docs, blobs, contents, storage_used, nextDocId, ops, q, qres>>

(* post_save receiver update_user_storage: StorageQuotaManager             *)
(* .update_user_quota, the sum over the owner's revisions ...              *)
SignalQuotaRead(w) ==
    /\ pc[w] = "signal_quota"
    /\ loc' = [loc EXCEPT ![w].sum = update_user_quota(docs, revs, loc[w].user)]
    /\ Goto(w, "signal_quota_save")
    /\ UNCHANGED <<db, ops, q, qres>>

(* ... and profile.save(update_fields=['storage_used'])                    *)
SignalQuotaSave(w) ==
    /\ pc[w] = "signal_quota_save"
    /\ storage_used' = [storage_used EXCEPT ![loc[w].user] = loc[w].sum]
    /\ Goto(w, IF loc[w].op = "put" THEN "put_name"
               ELSE IF loc[w].op = "bulk_delete" THEN "bulk_next"
               ELSE IF loc[w].op \in {"cleanup_old_revisions", "document.delete",
                                       "FileRevision.objects.create"} THEN "return"
               ELSE "usage")
    /\ UNCHANGED <<docs, revs, blobs, contents, nextDocId, nextRevId, assigned, loc, ops, q, qres>>

(* ------------------- utils.update_user_storage_usage ------------------- *)
UsageRead(w) ==
    /\ pc[w] = "usage"
    /\ loc' = [loc EXCEPT ![w].sum = calculate_user_storage_usage(docs, revs, loc[w].user)]
    /\ Goto(w, "usage_save")
    /\ UNCHANGED <<db, ops, q, qres>>

UsageSave(w) ==
    /\ pc[w] = "usage_save"
    /\ storage_used' = [storage_used EXCEPT ![loc[w].user] = loc[w].sum]
    /\ Finish(w, "ok")
    /\ UNCHANGED <<docs, revs, blobs, contents, nextDocId, nextRevId, assigned, ops, q, qres>>

(* ------------------------- quota pre-checks ---------------------------- *)
(* StorageQuotaPermission.has_permission for a request carrying a file     *)
StorageQuotaPermissionNoSize(used, limit, size) ==
    IF size = 0 THEN TRUE
    ELSE ~(used > limit)

StorageQuotaPermission(used, limit, size) ==
    IF size = 0 THEN TRUE
    ELSE ~(used + size > limit)

(* validators.validate_user_storage_limit: TRUE when nothing is raised     *)
validate_user_storage_limit(used, limit, size) == ~(used + size > limit)

(* validators.validate_file_size: TRUE when nothing is raised              *)
validate_file_size(size) == size # 0

(* DRF runs the permission classes before the handler; user.profile is     *)
(* read here and stays cached on request.user for the rest of the request  *)
Permission(w) ==
    /\ pc[w] = "permission"
    /\ LET used == storage_used[loc[w].user]
           limit == storage_limit[loc[w].user] IN
         IF StorageQuotaPermission(used, limit, loc[w].size)
         THEN /\ loc' = [loc EXCEPT ![w].used = used]
              /\ Goto(w, IF loc[w].op = "put" THEN "put_get" ELSE "post_validate")
         ELSE FinishAvail(w, "QuotaExceeded", limit - used)
    /\ UNCHANGED <<db, ops, q, qres>>

(* ------------------------- FileDetailView.put -------------------------- *)
PutStart(w, u, url, name, size) ==
    /\ pc[w] = "idle"
    /\ ops' = ops + 1
    /\ loc' = [loc EXCEPT ![w] = [idleLoc EXCEPT !.op = "put",
                                  !.user = u, !.url = url, !.name = name, !.size = size,
                                  !.bytes = size,
                                  !.req = [url |-> url, name |-> name]]]
    /\ Goto(w, "permission")
    /\ UNCHANGED <<db, q, qres>>

(* get_object: FileDocument.objects.get(owner=user, url=url) or Http404    *)
PutGet(w) ==
    /\ pc[w] = "put_get"
    /\ IF DocsAt(docs, loc[w].user, loc[w].url) # {}
       THEN /\ loc' = [loc EXCEPT ![w] = Fetched(loc[w], CHOOSE d \in DocsAt(docs, loc[w].user, loc[w].url) : TRUE)]
            /\ Goto(w, "put_validate")
       ELSE Finish(w, "NotFound")
    /\ UNCHANGED <<db, ops, q, qres>>

(* validate_file_upload(file_obj, user): no database access, the cached    *)
(* profile is used                                                         *)
PutValidate(w) ==
    /\ pc[w] = "put_validate"
    /\ IF /\ validate_file_size(loc[w].size)
          /\ validate_user_storage_limit(loc[w].used, storage_limit[loc[w].user], loc[w].size)
       THEN /\ Goto(w, "rev_number")
            /\ UNCHANGED loc
       ELSE FinishAvail(w, "ValidationError", storage_limit[loc[w].user] - loc[w].used)
    /\ UNCHANGED <<db, ops, q, qres>>

(* put: document.name = name; document.save() when a new name was sent     *)
PutName(w) ==
    /\ pc[w] = "put_name"
    /\ IF loc[w].name # None
       THEN docs' = {IF d.id = loc[w].doc THEN [d EXCEPT !.name = loc[w].name] ELSE d : d \in docs}
       ELSE docs' = docs
    /\ Goto(w, "usage")
    /\ UNCHANGED <<revs, blobs, contents, storage_used, nextDocId, nextRevId, assigned, loc, ops, q, qres>>

(* ------------------------ concurrent uploads --------------------------- *)
UploadSteps(w) ==
    \/ GetOrCreateGet(w)
    \/ GetOrCreateCreate(w)
    \/ NameUpdate(w)
    \/ RevisionNumber(w)
    \/ RevisionFile(w)
    \/ RevisionInsert(w)
    \/ SignalQuotaRead(w)
    \/ SignalQuotaSave(w)
    \/ UsageRead(w)
    \/ UsageSave(w)
    \/ Permission(w)
    \/ PutGet(w)
    \/ PutValidate(w)
    \/ PutName(w)

Next ==
    \E w \in Workers :
        \/ \E u \in Users, url \in ConcUrls, name \in ConcNames, size \in Sizes :
               ops < MaxOps /\ CreateFileDocumentStart(w, u, url, name, size)
        \/ \E u \in Users, url \in ConcUrls, size \in SizesOrEmpty :
               ops < MaxOps /\ PutStart(w, u, url, None, size)
        \/ UploadSteps(w)
        \/ GetOrCreateReget(w)

Spec == Init /\ [][Next]_vars

(* -------------- uploads to two different documents --------------------- *)
(* each worker uploads to a url of its own, so that the two workers never  *)
(* work on the same document                                               *)
UrlOf(w) == IF w = "w1" THEN "/a" ELSE "/b"

ParNext ==
    \E w \in Workers :
        \/ \E u \in Users, name \in ConcNames, size \in Sizes :
               ops < MaxOps /\ CreateFileDocumentStart(w, u, UrlOf(w), name, size)
        \/ \E u \in Users, size \in Sizes :
               ops < MaxOps /\ PutStart(w, u, UrlOf(w), None, size)
        \/ UploadSteps(w)

ParSpec == Init /\ [][ParNext]_vars

(* ------------- two pre-checked uploads of one owner -------------------- *)
(* alice's document /a is made by uploads of one byte through              *)
(* create_file_document; when they have ended, the last two requests are   *)
(* PUT uploads to it, which pass StorageQuotaPermission and                *)
(* validate_user_storage_limit first.                                      *)
Uploading == {w \in Workers : loc[w].op = "create_file_document"}

SoftNext ==
    \E w \in Workers :
        \/ ops < MaxSoftOps - 2 /\ CreateFileDocumentStart(w, "alice", "/a", "memo", 1)
        \/ \E size \in Sizes :
               /\ ops >= MaxSoftOps - 2
               /\ ops < MaxSoftOps
               /\ Uploading = {}
               /\ PutStart(w, "alice", "/a", None, size)
        \/ UploadSteps(w)
        \/ GetOrCreateReget(w)

SoftSpec == Init /\ [][SoftNext]_vars

(* --------------------- FileListCreateView.post ------------------------- *)
PostStart(w, u, url, name, size) ==
    /\ pc[w] = "idle"
    /\ ops' = ops + 1
    /\ loc' = [loc EXCEPT ![w] = [idleLoc EXCEPT !.op = "post",
                                  !.user = u, !.url = url, !.name = name, !.size = size,
                                  !.bytes = size,
                                  !.req = [url |-> url, name |-> name]]]
    /\ Goto(w, "permission")
    /\ UNCHANGED <<db, q, qres>>

(* FileUploadSerializer (an empty file is refused, a missing name becomes  *)
(* the file's name), validate_file_upload on the cached profile, and the   *)
(* call create_file_document(user, name, file_obj, url) of a function      *)
(* declared as create_file_document(user, url, name, file_obj): its url is *)
(* the display name, its name the file object, its file_obj the url        *)
PostValidate(w) ==
    /\ pc[w] = "post_validate"
    /\ IF ~validate_file_size(loc[w].size)
       THEN Finish(w, "ValidationError")
       ELSE IF ~validate_user_storage_limit(loc[w].used, storage_limit[loc[w].user], loc[w].size)
       THEN FinishAvail(w, "ValidationError", storage_limit[loc[w].user] - loc[w].used)
       ELSE /\ loc' = [loc EXCEPT ![w].url = IF loc[w].name = None THEN Filename ELSE loc[w].name,
                                   ![w].name = FileObject,
                                   ![w].isfile = FALSE]
            /\ Goto(w, "goc_get")
    /\ UNCHANGED <<db, ops, q, qres>>

(* --------------------- utils.delete_file_revision ---------------------- *)
DeleteFileRevisionStart(w, r) ==
    /\ pc[w] = "idle"
    /\ r \in revs
    /\ ops' = ops + 1
    /\ loc' = [loc EXCEPT ![w] = [idleLoc EXCEPT !.op = "delete_file_revision",
                                  !.user = DocById(docs, r.doc).owner,
                                  !.doc = r.doc, !.rev = r.id, !.file = r.file]]
    /\ Goto(w, "revision_file")
    /\ UNCHANGED <<db, q, qres>>

(* if revision.file_data: if default_storage.exists(name): delete(name)    *)
DeleteRevisionFile(w) ==
    /\ pc[w] = "revision_file"
    /\ blobs' = blobs \ {loc[w].file}
    /\ Goto(w, "revision_delete")
    /\ UNCHANGED <<contents, docs, revs, storage_used, nextDocId, nextRevId, assigned, loc, ops, q, qres>>

(* revision.delete(): the pre_delete receiver cleanup_revision_files       *)
(* removes the file if it is still there, then the row is deleted          *)
DeleteRevisionRow(w) ==
    /\ pc[w] = "revision_delete"
    /\ blobs' = blobs \ {loc[w].file}
    /\ revs' = {r \in revs : r.id # loc[w].rev}
    /\ Goto(w, "usage")
    /\ UNCHANGED <<contents, docs, storage_used, nextDocId, nextRevId, assigned, loc, ops, q, qres>>

(* --------------------- utils.delete_file_document ---------------------- *)
DeleteFileDocumentStart(w, d) ==
    /\ pc[w] = "idle"
    /\ d \in docs
    /\ ops' = ops + 1
    /\ loc' = [loc EXCEPT ![w] = [idleLoc EXCEPT !.op = "delete_file_document",
                                  !.user = d.owner, !.doc = d.id,
                                  !.had = RevsOf(revs, d.id),
                                  !.used = storage_used[d.owner]]]
    /\ Goto(w, "document_blobs")
    /\ UNCHANGED <<db, q, qres>>

(* for revision in document.revisions.all(): default_storage.delete(name)  *)
DeleteDocumentBlobs(w) ==
    /\ pc[w] = "document_blobs"
    /\ blobs' = blobs \ {r.file : r \in RevsOf(revs, loc[w].doc)}
    /\ Goto(w, "document_delete")
    /\ UNCHANGED <<contents, docs, revs, storage_used, nextDocId, nextRevId, assigned, loc, ops, q, qres>>

(* FileRevision.document: on_delete=models.CASCADE                         *)
CascadeNothing(rs, id) == rs

Cascade(rs, id) == rs \ RevsOf(rs, id)

(* document.delete(): the revisions cascade, each through the pre_delete   *)
(* receiver cleanup_revision_files; update_storage_on_delete schedules     *)
(* update_user_quota for the commit of the deletion. In bulk_delete_view   *)
(* the loop then counts the document and moves to the next url.            *)
DocumentDelete(w) ==
    /\ pc[w] = "document_delete"
    /\ blobs' = blobs \ {r.file : r \in RevsOf(revs, loc[w].doc)}
    /\ revs' = Cascade(revs, loc[w].doc)
    /\ docs' = {d \in docs : d.id # loc[w].doc}
    /\ loc' = IF loc[w].op = "bulk_delete"
              THEN [loc EXCEPT ![w].count = loc[w].count + 1, ![w].urls = Tail(loc[w].urls)]
              ELSE loc
    /\ Goto(w, "signal_quota")
    /\ UNCHANGED <<contents, storage_used, nextDocId, nextRevId, assigned, ops, q, qres>>

(* ----------------------- FileDetailView.delete ------------------------- *)
ViewDeleteStart(w, u, url) ==
    /\ pc[w] = "idle"
    /\ ops' = ops + 1
    /\ loc' = [loc EXCEPT ![w] = [idleLoc EXCEPT !.op = "delete", !.user = u, !.url = url]]
    /\ Goto(w, "delete_get")
    /\ UNCHANGED <<db, q, qres>>

ViewDeleteGet(w) ==
    /\ pc[w] = "delete_get"
    /\ IF DocsAt(docs, loc[w].user, loc[w].url) # {}
       THEN /\ LET d == CHOOSE x \in DocsAt(docs, loc[w].user, loc[w].url) : TRUE IN
                   loc' = [loc EXCEPT ![w].doc = d.id, ![w].had = RevsOf(revs, d.id),
                                      ![w].used = storage_used[loc[w].user]]
            /\ Goto(w, "document_files")
       ELSE Finish(w, "NotFound")
    /\ UNCHANGED <<db, ops, q, qres>>

(* FileRevision.save of a stored revision whose file_data was just         *)
(* emptied: "if not self.revision_number" also holds for number 0, which   *)
(* is then replaced by last + 1                                            *)
ResavedNumber(rs, r) ==
    IF r.num = 0 THEN NextRevisionNumber(rs, r.doc) ELSE r.num

(* for revision in document.revisions.all(): if the file exists:           *)
(* revision.file_data.delete(), which deletes the file, empties the field  *)
(* and saves the revision. Revisions come highest number first, so number  *)
(* 0 is saved last, with every other number still in place.                *)
FileDataDeleteAll(rs, bs, id) ==
    {IF r.doc = id /\ r.file # NoFile /\ r.file \in bs
     THEN [r EXCEPT !.file = NoFile, !.num = ResavedNumber(rs, r)]
     ELSE r : r \in rs}

DocumentFiles(w) ==
    /\ pc[w] = "document_files"
    /\ revs' = FileDataDeleteAll(revs, blobs, loc[w].doc)
    /\ blobs' = blobs \ {r.file : r \in RevsOf(revs, loc[w].doc)}
    /\ Goto(w, "document_delete")
    /\ UNCHANGED <<contents, docs, storage_used, nextDocId, nextRevId, assigned, loc, ops, q, qres>>

(* -------------------------- bulk_delete_view --------------------------- *)
BulkDeleteStart(w, u, urls) ==
    /\ pc[w] = "idle"
    /\ ops' = ops + 1
    /\ loc' = [loc EXCEPT ![w] = [idleLoc EXCEPT !.op = "bulk_delete", !.user = u, !.urls = urls,
                                  !.listed = urls]]
    /\ Goto(w, "bulk_permission")
    /\ UNCHANGED <<db, q, qres>>

(* BulkOperationPermission.has_permission: every url must be a url of one  *)
(* of the user's documents                                                 *)
BulkOperationPermission(ds, u, urls) ==
    \A i \in 1..Len(urls) : DocsAt(ds, u, urls[i]) # {}

BulkPermission(w) ==
    /\ pc[w] = "bulk_permission"
    /\ IF BulkOperationPermission(docs, loc[w].user, loc[w].urls)
       THEN /\ Goto(w, "bulk_next")
            /\ UNCHANGED loc
       ELSE Finish(w, "Forbidden")
    /\ UNCHANGED <<db, ops, q, qres>>

(* for url in urls: FileDocument.objects.get(owner=user, url=url), with    *)
(* DoesNotExist recorded as an error; after the loop the usage is updated  *)
BulkNext(w) ==
    /\ pc[w] = "bulk_next"
    /\ IF loc[w].urls = <<>>
       THEN /\ Goto(w, "usage")
            /\ UNCHANGED loc
       ELSE IF DocsAt(docs, loc[w].user, Head(loc[w].urls)) # {}
       THEN /\ loc' = [loc EXCEPT ![w].doc = (CHOOSE d \in DocsAt(docs, loc[w].user, Head(loc[w].urls)) : TRUE).id]
            /\ Goto(w, "document_files")
       ELSE /\ loc' = [loc EXCEPT ![w].errors = loc[w].errors + 1, ![w].urls = Tail(loc[w].urls)]
            /\ Goto(w, "bulk_next")
    /\ UNCHANGED <<db, ops, q, qres>>

(* ------------- RevisionManager.cleanup_old_revisions ------------------- *)
Keeps == 0..MaxKeep

(* document.revisions.order_by('-revision_number')                         *)
RECURSIVE OrderByNumberDescending(_)
OrderByNumberDescending(S) ==
    IF S = {} THEN <<>>
    ELSE LET m == CHOOSE r \in S : \A o \in S : o.num <= r.num
         IN <<m>> \o OrderByNumberDescending(S \ {m})

(* old_revisions = revisions[keep_count:]                                  *)
old_revisions_after_one_more(rs, id, keep) ==
    LET s == OrderByNumberDescending(RevsOf(rs, id)) IN SubSeq(s, keep + 2, Len(s))

old_revisions(rs, id, keep) ==
    LET s == OrderByNumberDescending(RevsOf(rs, id)) IN SubSeq(s, keep + 1, Len(s))

(* what a retention run finds of the run that ended just before it         *)
PrevOf(l) ==
    IF l.run.level # None /\ l.result = "ok"
    THEN [run |-> l.run, failed |-> l.failed, deleted |-> l.total]
    ELSE noPrev

CleanupStart(w, d, keep) ==
    /\ pc[w] = "idle"
    /\ d \in docs
    /\ ops' = ops + 1
    /\ loc' = [loc EXCEPT ![w] = [idleLoc EXCEPT !.op = "RevisionManager.cleanup_old_revisions",
                                  !.user = d.owner, !.doc = d.id,
                                  !.run = [level |-> "document", doc |-> d.id,
                                           user |-> d.owner, keep |-> keep],
                                  !.prev = PrevOf(loc[w])]]
    /\ Goto(w, "cleanup_count")
    /\ UNCHANGED <<db, q, qres>>

(* if revisions.count() <= keep_count: return 0                            *)
CleanupCount(w) ==
    /\ pc[w] = "cleanup_count"
    /\ loc' = [loc EXCEPT ![w].had = RevsOf(revs, loc[w].doc), ![w].count = 0]
    /\ Goto(w, IF Cardinality(RevsOf(revs, loc[w].doc)) <= loc[w].run.keep
               THEN "cleanup_return" ELSE "cleanup_list")
    /\ UNCHANGED <<db, ops, q, qres>>

(* for revision in old_revisions: the sliced query is run once             *)
CleanupListOfAll(w) ==
    /\ pc[w] = "cleanup_list"
    /\ LET todo == OrderByNumberDescending(RevsOf(revs, loc[w].doc)) IN
         /\ loc' = [loc EXCEPT ![w].todo = todo]
         /\ Goto(w, IF todo = <<>> THEN "cleanup_return" ELSE "cleanup_file")
    /\ UNCHANGED <<db, ops, q, qres>>

CleanupList(w) ==
    /\ pc[w] = "cleanup_list"
    /\ LET todo == old_revisions(revs, loc[w].doc, loc[w].run.keep) IN
         /\ loc' = [loc EXCEPT ![w].todo = todo]
         /\ Goto(w, IF todo = <<>> THEN "cleanup_return" ELSE "cleanup_file")
    /\ UNCHANGED <<db, ops, q, qres>>

HasStoredFile(bs, r) == r.file # NoFile /\ r.file \in bs

(* if revision.file_data and storage.exists(name):                         *)
(*     revision.file_data.delete(save=False)                               *)
CleanupFile(w) ==
    /\ pc[w] = "cleanup_file"
    /\ blobs' = blobs \ {Head(loc[w].todo).file}
    /\ Goto(w, "cleanup_row")
    /\ UNCHANGED <<contents, docs, revs, storage_used, nextDocId, nextRevId, assigned, loc, ops, q, qres>>

(* deleted_count += 1 without the row having been deleted                  *)
CleanupRowCountOnly(w) ==
    /\ pc[w] = "cleanup_row"
    /\ loc' = [loc EXCEPT ![w].count = loc[w].count + 1, ![w].todo = Tail(loc[w].todo)]
    /\ Goto(w, IF Tail(loc[w].todo) = <<>> THEN "cleanup_return" ELSE "cleanup_file")
    /\ UNCHANGED <<db, ops, q, qres>>

(* revision.delete(); deleted_count += 1. The pre_delete receiver finds    *)
(* the instance's file_data emptied, or its file absent, and does nothing. *)
CleanupRow(w) ==
    /\ pc[w] = "cleanup_row"
    /\ revs' = {r \in revs : r.id # Head(loc[w].todo).id}
    /\ loc' = [loc EXCEPT ![w].count = loc[w].count + 1, ![w].todo = Tail(loc[w].todo)]
    /\ Goto(w, IF Tail(loc[w].todo) = <<>> THEN "cleanup_return" ELSE "cleanup_file")
    /\ UNCHANGED <<docs, blobs, contents, storage_used, nextDocId, nextRevId, assigned, ops, q, qres>>

(* return deleted_count: to the caller of the document-level function, or  *)
(* into the loop of cleanup_old_revisions(user, keep_per_document)         *)
CleanupReturn(w) ==
    /\ pc[w] = "cleanup_return"
    /\ IF loc[w].run.level = "document"
       THEN /\ pc' = [pc EXCEPT ![w] = "idle"]
            /\ loc' = [loc EXCEPT ![w] = [idleLoc EXCEPT !.result = "ok", !.run = loc[w].run,
                                          !.failed = loc[w].failed, !.count = loc[w].count,
                                          !.total = loc[w].count, !.prev = loc[w].prev]]
       ELSE /\ loc' = [loc EXCEPT ![w].total = loc[w].total + loc[w].count]
            /\ Goto(w, "cleanup_next")
    /\ UNCHANGED <<db, ops, q, qres>>

(* -------- models_extensions.cleanup_old_revisions(user, keep) ---------- *)
UserCleanupStart(w, u, keep) ==
    /\ pc[w] = "idle"
    /\ ops' = ops + 1
    /\ loc' = [loc EXCEPT ![w] = [idleLoc EXCEPT !.op = "cleanup_old_revisions", !.user = u,
                                  !.run = [level |-> "user", doc |-> NoDoc,
                                           user |-> u, keep |-> keep],
                                  !.prev = PrevOf(loc[w])]]
    /\ Goto(w, "cleanup_documents")
    /\ UNCHANGED <<db, q, qres>>

(* documents = FileDocument.objects.filter(owner=user)                     *)
UserCleanupDocuments(w) ==
    /\ pc[w] = "cleanup_documents"
    /\ loc' = [loc EXCEPT ![w].left = {d.id : d \in {x \in docs : x.owner = loc[w].user}}]
    /\ Goto(w, "cleanup_next")
    /\ UNCHANGED <<db, ops, q, qres>>

(* for document in documents: ...; then update_user_quota(user)            *)
UserCleanupNext(w) ==
    /\ pc[w] = "cleanup_next"
    /\ IF loc[w].left = {}
       THEN /\ Goto(w, "signal_quota")
            /\ UNCHANGED loc
       ELSE /\ \E d \in loc[w].left :
                  loc' = [loc EXCEPT ![w].doc = d, ![w].left = loc[w].left \ {d}]
            /\ Goto(w, "cleanup_count")
    /\ UNCHANGED <<db, ops, q, qres>>

(* return total_cleaned                                                    *)
UserCleanupReturn(w) ==
    /\ pc[w] = "return"
    /\ loc[w].op = "cleanup_old_revisions"
    /\ pc' = [pc EXCEPT ![w] = "idle"]
    /\ loc' = [loc EXCEPT ![w] = [idleLoc EXCEPT !.result = "ok", !.run = loc[w].run,
                                  !.failed = loc[w].failed, !.total = loc[w].total,
                                  !.prev = loc[w].prev]]
    /\ UNCHANGED <<db, ops, q, qres>>

(* ------------------------- FileDetailView.get -------------------------- *)
(* the revision query parameter of a download: left out, or a number       *)
NoRevision == 0 - 1

Wants == {NoRevision, 0, 1}

GetStart(w, u, url, download, want) ==
    /\ pc[w] = "idle"
    /\ ops' = ops + 1
    /\ loc' = [loc EXCEPT ![w] = [idleLoc EXCEPT !.op = IF download THEN "download" ELSE "get",
                                  !.user = u, !.url = url, !.want = want]]
    /\ Goto(w, "get_object")
    /\ UNCHANGED <<db, q, qres>>

(* document.get_latest_revision()                                          *)
LatestRevisionLowest(rs, id) == CHOOSE r \in RevsOf(rs, id) : \A o \in RevsOf(rs, id) : o.num >= r.num

LatestRevision(rs, id) == CHOOSE r \in RevsOf(rs, id) : \A o \in RevsOf(rs, id) : o.num <= r.num

(* document.revisions.get(revision_number=int(revision_num)), or           *)
(* document.get_latest_revision(): the revisions to serve, none or one     *)
RevisionToServe(rs, id, want) ==
    IF want # NoRevision THEN {r \in RevsOf(rs, id) : r.num = want}
    ELSE IF RevsOf(rs, id) = {} THEN {}
    ELSE {LatestRevision(rs, id)}

(* revision.file_data.read(): the bytes stored under the name              *)
Read(cs, f) == (CHOOSE c \in cs : c.file = f).bytes

(* get_object, then the details of the document or, for download=true,     *)
(* the file of the revision asked for or of the latest revision; the      *)
(* response keeps its body, the document and the revision parameter        *)
GetObject(w) ==
    /\ pc[w] = "get_object"
    /\ IF DocsAt(docs, loc[w].user, loc[w].url) = {}
       THEN Finish(w, "NotFound")
       ELSE LET d == CHOOSE x \in DocsAt(docs, loc[w].user, loc[w].url) : TRUE
                found == RevisionToServe(revs, d.id, loc[w].want) IN
            IF loc[w].op = "get" THEN Finish(w, "ok")
            ELSE IF found = {} /\ loc[w].want # NoRevision THEN Finish(w, "RevisionNotFound")
            ELSE IF found = {} \/ \A r \in found : r.file = NoFile
            THEN Finish(w, "FileDataNotFound")
            ELSE IF \A r \in found : r.file \in blobs
            THEN \E r \in found :
                    /\ pc' = [pc EXCEPT ![w] = "idle"]
                    /\ loc' = [loc EXCEPT ![w] = [idleLoc EXCEPT !.result = "ok",
                                                  !.body = Read(contents, r.file),
                                                  !.doc = d.id, !.want = loc[w].want]]
            ELSE Finish(w, "FileNotReadable")
    /\ UNCHANGED <<db, ops, q, qres>>

(* ------------------ api_extensions.cleanup_user_files ------------------ *)
CleanupUserFilesStart(w, u, keep) ==
    IF keep < 1
    THEN /\ pc[w] = "idle"
         /\ ops' = ops + 1
         /\ Finish(w, "BadRequest")
         /\ UNCHANGED <<db, q, qres>>
    ELSE UserCleanupStart(w, u, keep)

(* ------------------------ one request at a time ------------------------ *)
DeleteSteps(w) ==
    \/ PostValidate(w)
    \/ DeleteRevisionFile(w)
    \/ DeleteRevisionRow(w)
    \/ DeleteDocumentBlobs(w)
    \/ DocumentDelete(w)
    \/ ViewDeleteGet(w)
    \/ DocumentFiles(w)
    \/ BulkPermission(w)
    \/ BulkNext(w)
    \/ GetObject(w)
    \/ UserCleanupDocuments(w)
    \/ UserCleanupNext(w)
    \/ CleanupCount(w)
    \/ CleanupList(w)
    \/ CleanupFile(w)
    \/ CleanupRow(w)
    \/ CleanupReturn(w)
    \/ UserCleanupReturn(w)

(* the url field of a POST: given, or left out                             *)
PostUrls == {"/b", None}

UrlLists == {<<a>> : a \in Urls} \cup {<<a, b>> : a \in Urls, b \in Urls}

SeqNext ==
    \/ \E u \in Users, url \in Urls, name \in Names, size \in Sizes :
           ops < MaxSeqOps /\ CreateFileDocumentStart(SeqWorker, u, url, name, size)
    \/ \E u \in Users, url \in Urls, name \in Names \cup {None}, size \in SizesOrEmpty :
           ops < MaxSeqOps /\ PutStart(SeqWorker, u, url, name, size)
    \/ \E u \in Users, url \in PostUrls, name \in Names \cup {None}, size \in SizesOrEmpty :
           ops < MaxSeqOps /\ PostStart(SeqWorker, u, url, name, size)
    \/ \E r \in revs : ops < MaxSeqOps /\ DeleteFileRevisionStart(SeqWorker, r)
    \/ \E d \in docs : ops < MaxSeqOps /\ DeleteFileDocumentStart(SeqWorker, d)
    \/ \E u \in Users, url \in Urls : ops < MaxSeqOps /\ ViewDeleteStart(SeqWorker, u, url)
    \/ \E u \in Users, urls \in UrlLists : ops < MaxSeqOps /\ BulkDeleteStart(SeqWorker, u, urls)
    \/ \E u \in Users, url \in Urls : ops < MaxSeqOps /\ GetStart(SeqWorker, u, url, FALSE, NoRevision)
    \/ \E u \in Users, url \in Urls, want \in Wants :
           ops < MaxSeqOps /\ GetStart(SeqWorker, u, url, TRUE, want)
    \/ \E u \in Users, keep \in Keeps : ops < MaxSeqOps /\ CleanupUserFilesStart(SeqWorker, u, keep)
    \/ UploadSteps(SeqWorker)
    \/ DeleteSteps(SeqWorker)

SeqSpec == Init /\ [][SeqNext]_vars

(* The database retention starts from: what uploads through                *)
(* create_file_document leave behind. alice holds /a with 1 .. MaxRevs     *)
(* revisions and /b with one, bob holds /a with one; numbers run from 0,   *)
(* every file is stored and storage_used is the sum of the sizes.          *)
Uploaded(id, first, n) ==
    {[id |-> first + i, doc |-> id, num |-> i,
      size |-> IF i % 2 = 0 THEN 1 ELSE MaxSize,
      file |-> [doc |-> id, num |-> i, alt |-> 0],
      sent |-> IF i % 2 = 0 THEN 1 ELSE MaxSize] : i \in 0..(n - 1)}

UploadedDocuments ==
    {[id |-> 1, owner |-> "alice", url |-> "/a", name |-> "memo"],
     [id |-> 2, owner |-> "alice", url |-> "/b", name |-> "memo"],
     [id |-> 3, owner |-> "bob", url |-> "/a", name |-> "memo"]}

UploadedRevisions(n) == Uploaded(1, 1, n) \cup Uploaded(2, n + 1, 1) \cup Uploaded(3, n + 2, 1)

RetInit ==
    \E n \in 1..MaxRevs :
        /\ docs = UploadedDocuments
        /\ revs = UploadedRevisions(n)
        /\ blobs = {r.file : r \in UploadedRevisions(n)}
        /\ contents = {[file |-> r.file, bytes |-> r.sent, len |-> r.size] : r \in UploadedRevisions(n)}
        /\ storage_used = [u \in Users |-> update_user_quota(UploadedDocuments, UploadedRevisions(n), u)]
        /\ nextDocId = 4
        /\ nextRevId = n + 3
        /\ pc = [w \in Workers |-> "idle"]
        /\ loc = [w \in Workers |-> idleLoc]
        /\ ops = 0
        /\ assigned = {[doc |-> r.doc, num |-> r.num, rev |-> r.id] : r \in UploadedRevisions(n)}
        /\ q = noQ
        /\ qres = noQres

RetNext ==
    \/ \E d \in docs, keep \in Keeps : ops < MaxRetOps /\ CleanupStart(SeqWorker, d, keep)
    \/ \E u \in Users, keep \in Keeps : ops < MaxRetOps /\ UserCleanupStart(SeqWorker, u, keep)
    \/ CleanupCount(SeqWorker)
    \/ CleanupList(SeqWorker)
    \/ CleanupFile(SeqWorker)
    \/ CleanupRow(SeqWorker)
    \/ CleanupReturn(SeqWorker)
    \/ UserCleanupDocuments(SeqWorker)
    \/ UserCleanupNext(SeqWorker)
    \/ SignalQuotaRead(SeqWorker)
    \/ SignalQuotaSave(SeqWorker)
    \/ UserCleanupReturn(SeqWorker)

RetSpec == RetInit /\ [][RetNext]_vars

(* ------------- retention runs and uploads interleaved ------------------ *)
(* keep_count as cleanup_user_files admits it                              *)
KeepsAtLeastOne == 1..MaxKeep

(* two workers on alice's /a: retention of the document or of the owner,   *)
(* and uploads of one byte                                                 *)
RaceNext ==
    \E w \in Workers :
        \/ \E d \in DocsAt(docs, "alice", "/a"), keep \in KeepsAtLeastOne :
               ops < MaxRetOps /\ CleanupStart(w, d, keep)
        \/ \E keep \in KeepsAtLeastOne : ops < MaxRetOps /\ UserCleanupStart(w, "alice", keep)
        \/ ops < MaxRetOps /\ CreateFileDocumentStart(w, "alice", "/a", "memo", 1)
        \/ CleanupCount(w)
        \/ CleanupList(w)
        \/ CleanupFile(w)
        \/ CleanupRow(w)
        \/ CleanupReturn(w)
        \/ UserCleanupDocuments(w)
        \/ UserCleanupNext(w)
        \/ UserCleanupReturn(w)
        \/ GetOrCreateGet(w)
        \/ NameUpdate(w)
        \/ RevisionNumber(w)
        \/ RevisionFile(w)
        \/ RevisionInsert(w)
        \/ SignalQuotaRead(w)
        \/ SignalQuotaSave(w)
        \/ UsageRead(w)
        \/ UsageSave(w)

RaceSpec == RetInit /\ [][RaceNext]_vars

(* -------------------- deletions that can fail -------------------------- *)
(* file_data.delete(save=False) raises (the storage refuses): the except   *)
(* clause of the loop logs the error and goes on with the next revision    *)
CleanupFileFails(w) ==
    /\ pc[w] = "cleanup_file"
    /\ HasStoredFile(blobs, Head(loc[w].todo))
    /\ loc' = [loc EXCEPT ![w].failed = TRUE, ![w].todo = Tail(loc[w].todo)]
    /\ Goto(w, IF Tail(loc[w].todo) = <<>> THEN "cleanup_return" ELSE "cleanup_file")
    /\ UNCHANGED <<db, ops, q, qres>>

(* revision.delete() raises (the database refuses): logged the same way    *)
CleanupRowFails(w) ==
    /\ pc[w] = "cleanup_row"
    /\ loc' = [loc EXCEPT ![w].failed = TRUE, ![w].todo = Tail(loc[w].todo)]
    /\ Goto(w, IF Tail(loc[w].todo) = <<>> THEN "cleanup_return" ELSE "cleanup_file")
    /\ UNCHANGED <<db, ops, q, qres>>

(* delete_file_revision: default_storage.delete raises and nothing catches *)
(* it; the function ends there                                             *)
DeleteRevisionFileFails(w) ==
    /\ pc[w] = "revision_file"
    /\ loc[w].file # NoFile /\ loc[w].file \in blobs
    /\ pc' = [pc EXCEPT ![w] = "idle"]
    /\ loc' = [loc EXCEPT ![w] = [idleLoc EXCEPT !.result = "StorageError", !.failed = TRUE]]
    /\ UNCHANGED <<db, ops, q, qres>>

(* FileDocument.delete() called on its own, as the admin site does         *)
DocumentDeleteStart(w, d) ==
    /\ pc[w] = "idle"
    /\ d \in docs
    /\ ops' = ops + 1
    /\ loc' = [loc EXCEPT ![w] = [idleLoc EXCEPT !.op = "document.delete",
                                  !.user = d.owner, !.doc = d.id]]
    /\ Goto(w, "document_delete")
    /\ UNCHANGED <<db, q, qres>>

(* the cascade with a receiver cleanup_revision_files whose                *)
(* file_data.delete raises for some of the files: the receiver logs the    *)
(* error and returns, and the rows are deleted                             *)
DocumentDeleteFails(w) ==
    /\ pc[w] = "document_delete"
    /\ \E kept \in SUBSET {r.file : r \in {x \in RevsOf(revs, loc[w].doc) : HasStoredFile(blobs, x)}} :
          /\ kept # {}
          /\ blobs' = blobs \ ({r.file : r \in RevsOf(revs, loc[w].doc)} \ kept)
    /\ revs' = revs \ RevsOf(revs, loc[w].doc)
    /\ docs' = {d \in docs : d.id # loc[w].doc}
    /\ loc' = [loc EXCEPT ![w].failed = TRUE]
    /\ Goto(w, "signal_quota")
    /\ UNCHANGED <<contents, storage_used, nextDocId, nextRevId, assigned, ops, q, qres>>

DocumentDeleteReturn(w) ==
    /\ pc[w] = "return"
    /\ loc[w].op = "document.delete"
    /\ pc' = [pc EXCEPT ![w] = "idle"]
    /\ loc' = [loc EXCEPT ![w] = [idleLoc EXCEPT !.result = "ok", !.failed = loc[w].failed]]
    /\ UNCHANGED <<db, ops, q, qres>>

(* FileDetailView.delete: revision.file_data.delete() raises for the k-th  *)
(* revision of the loop (highest number first). The revisions before it    *)
(* have lost their file and were saved with file_data emptied; the         *)
(* exception leaves the view, the document is not deleted.                 *)
DocumentFilesFails(w) ==
    /\ pc[w] = "document_files"
    /\ loc[w].op = "delete"
    /\ LET s == OrderByNumberDescending(RevsOf(revs, loc[w].doc)) IN
       \E k \in 1..Len(s) :
          /\ HasStoredFile(blobs, s[k])
          /\ LET done == {s[i] : i \in 1..(k - 1)} IN
               /\ revs' = {IF r \in done /\ HasStoredFile(blobs, r)
                           THEN [r EXCEPT !.file = NoFile, !.num = ResavedNumber(revs, r)]
                           ELSE r : r \in revs}
               /\ blobs' = blobs \ {r.file : r \in done}
    /\ pc' = [pc EXCEPT ![w] = "idle"]
    /\ loc' = [loc EXCEPT ![w] = [idleLoc EXCEPT !.result = "StorageError", !.failed = TRUE]]
    /\ UNCHANGED <<docs, contents, storage_used, nextDocId, nextRevId, assigned, ops, q, qres>>

(* the user whose revisions retention is run on while deletions fail       *)
CleanupUsers == {"alice"}

FaultNext ==
    \/ \E d \in {x \in docs : x.owner \in CleanupUsers}, keep \in Keeps :
           ops < MaxRetOps /\ CleanupStart(SeqWorker, d, keep)
    \/ \E u \in CleanupUsers, keep \in Keeps : ops < MaxRetOps /\ UserCleanupStart(SeqWorker, u, keep)
    \/ \E r \in revs : ops < MaxRetOps /\ DeleteFileRevisionStart(SeqWorker, r)
    \/ \E d \in docs : ops < MaxRetOps /\ DocumentDeleteStart(SeqWorker, d)
    \/ \E u \in CleanupUsers, url \in Urls : ops < MaxRetOps /\ ViewDeleteStart(SeqWorker, u, url)
    \/ ViewDeleteGet(SeqWorker)
    \/ DocumentFiles(SeqWorker)
    \/ DocumentFilesFails(SeqWorker)
    \/ CleanupCount(SeqWorker)
    \/ CleanupList(SeqWorker)
    \/ CleanupFile(SeqWorker)
    \/ CleanupFileFails(SeqWorker)
    \/ CleanupRow(SeqWorker)
    \/ CleanupRowFails(SeqWorker)
    \/ CleanupReturn(SeqWorker)
    \/ UserCleanupDocuments(SeqWorker)
    \/ UserCleanupNext(SeqWorker)
    \/ UserCleanupReturn(SeqWorker)
    \/ DeleteRevisionFile(SeqWorker)
    \/ DeleteRevisionFileFails(SeqWorker)
    \/ DeleteRevisionRow(SeqWorker)
    \/ DocumentDelete(SeqWorker)
    \/ DocumentDeleteFails(SeqWorker)
    \/ DocumentDeleteReturn(SeqWorker)
    \/ SignalQuotaRead(SeqWorker)
    \/ SignalQuotaSave(SeqWorker)
    \/ UsageRead(SeqWorker)
    \/ UsageSave(SeqWorker)

FaultSpec == RetInit /\ [][FaultNext]_vars

(* ------------------ FileRevision used directly ------------------------- *)
(* file_size values a caller passes to FileRevision(...): 0 stands for     *)
(* leaving it out                                                          *)
GivenSizes == 0..MaxSize

(* FileRevision.objects.create(document=d, file_data=f, file_size=given)   *)
RevisionCreateStart(w, d, size, given) ==
    /\ pc[w] = "idle"
    /\ d \in docs
    /\ ops' = ops + 1
    /\ loc' = [loc EXCEPT ![w] = [idleLoc EXCEPT !.op = "FileRevision.objects.create",
                                  !.user = d.owner, !.doc = d.id, !.size = size,
                                  !.bytes = size, !.file_size = given]]
    /\ Goto(w, "rev_number")
    /\ UNCHANGED <<db, q, qres>>

RevisionCreateReturn(w) ==
    /\ pc[w] = "return"
    /\ loc[w].op = "FileRevision.objects.create"
    /\ Finish(w, "ok")
    /\ UNCHANGED <<db, ops, q, qres>>

(* revision.file_data.size of a stored file: Storage.size(name)            *)
StoredLength(cs, f) == (CHOOSE c \in cs : c.file = f).len

(* revision.file_size = given; revision.save() on a stored revision        *)
RevisionSaveStart(w, r, given) ==
    /\ pc[w] = "idle"
    /\ r \in revs
    /\ ops' = ops + 1
    /\ loc' = [loc EXCEPT ![w] = [idleLoc EXCEPT !.op = "revision.save",
                                  !.user = DocById(docs, r.doc).owner, !.doc = r.doc,
                                  !.rev = r.id, !.file = r.file, !.file_size = given]]
    /\ Goto(w, "save_row")
    /\ UNCHANGED <<db, q, qres>>

(* save(): file_size taken from the file when it is 0, the number looked   *)
(* up again when it is 0, then the UPDATE; update_user_storage does        *)
(* nothing for a row that was not created                                  *)
RevisionSave(w) ==
    /\ pc[w] = "save_row"
    /\ revs' = {IF r.id = loc[w].rev
                THEN [r EXCEPT !.size = file_size(loc[w].file_size, StoredLength(contents, r.file)),
                               !.num = ResavedNumber(revs, r)]
                ELSE r : r \in revs}
    /\ Finish(w, "ok")
    /\ UNCHANGED <<docs, blobs, contents, storage_used, nextDocId, nextRevId, assigned, ops, q, qres>>

ModelNext ==
    \/ \E d \in docs, size \in Sizes, given \in GivenSizes :
           ops < MaxRetOps /\ RevisionCreateStart(SeqWorker, d, size, given)
    \/ \E r \in revs, given \in GivenSizes :
           ops < MaxRetOps /\ RevisionSaveStart(SeqWorker, r, given)
    \/ RevisionNumber(SeqWorker)
    \/ RevisionFile(SeqWorker)
    \/ RevisionInsert(SeqWorker)
    \/ SignalQuotaRead(SeqWorker)
    \/ SignalQuotaSave(SeqWorker)
    \/ RevisionCreateReturn(SeqWorker)
    \/ RevisionSave(SeqWorker)

ModelSpec == RetInit /\ [][ModelNext]_vars

(* ------------------- the quota checks as functions --------------------- *)
(* UserProfile.can_upload_file                                             *)
can_upload_file_strict(used, limit, size) == (used + size) < limit

can_upload_file(used, limit, size) == (used + size) <= limit

(* StorageQuotaManager.check_quota_available: (allowed, available)         *)
check_quota_available(used, limit, size) ==
    IF used + size > limit
    THEN [ok |-> FALSE, available |-> limit - used]
    ELSE [ok |-> TRUE, available |-> limit - used - size]

(* utils.check_user_storage_limit: (allowed, available)                    *)
check_user_storage_limit(used, limit, size) ==
    IF used + size > limit
    THEN [ok |-> FALSE, available |-> limit - used]
    ELSE [ok |-> TRUE, available |-> 0]

(* StorageQuotaManager.get_quota_status: its 'available'                   *)
get_quota_status(used, limit) ==
    [available |-> IF limit - used > 0 THEN limit - used ELSE 0]

QuotaInit ==
    /\ docs = {}
    /\ revs = {}
    /\ blobs = {}
    /\ contents = {}
    /\ storage_used = [u \in Users |-> 0]
    /\ nextDocId = 1
    /\ nextRevId = 1
    /\ pc = [w \in Workers |-> "idle"]
    /\ loc = [w \in Workers |-> idleLoc]
    /\ ops = 0
    /\ assigned = {}
    /\ q \in [used : 0..MaxQ, limit : 0..MaxQ, size : 0..MaxQ]
    /\ qres = noQres

ApplyCanUploadFile ==
    /\ ~qres.can_upload_file.done
    /\ qres' = [qres EXCEPT !.can_upload_file = Returned(can_upload_file(q.used, q.limit, q.size), 0)]
    /\ UNCHANGED <<db, pc, loc, ops, q>>

ApplyCheckQuotaAvailable ==
    /\ ~qres.check_quota_available.done
    /\ LET r == check_quota_available(q.used, q.limit, q.size) IN
         qres' = [qres EXCEPT !.check_quota_available = Returned(r.ok, r.available)]
    /\ UNCHANGED <<db, pc, loc, ops, q>>

ApplyValidateUserStorageLimit ==
    /\ ~qres.validate_user_storage_limit.done
    /\ qres' = [qres EXCEPT !.validate_user_storage_limit =
                    Returned(validate_user_storage_limit(q.used, q.limit, q.size), 0)]
    /\ UNCHANGED <<db, pc, loc, ops, q>>

ApplyCheckUserStorageLimit ==
    /\ ~qres.check_user_storage_limit.done
    /\ LET r == check_user_storage_limit(q.used, q.limit, q.size) IN
         qres' = [qres EXCEPT !.check_user_storage_limit = Returned(r.ok, r.available)]
    /\ UNCHANGED <<db, pc, loc, ops, q>>

ApplyStorageQuotaPermission ==
    /\ ~qres.StorageQuotaPermission.done
    /\ qres' = [qres EXCEPT !.StorageQuotaPermission =
                    Returned(StorageQuotaPermission(q.used, q.limit, q.size), 0)]
    /\ UNCHANGED <<db, pc, loc, ops, q>>

ApplyGetQuotaStatus ==
    /\ ~qres.get_quota_status.done
    /\ qres' = [qres EXCEPT !.get_quota_status =
                    Returned(TRUE, get_quota_status(q.used, q.limit).available)]
    /\ UNCHANGED <<db, pc, loc, ops, q>>

QuotaNext ==
    \/ ApplyCanUploadFile
    \/ ApplyCheckQuotaAvailable
    \/ ApplyValidateUserStorageLimit
    \/ ApplyCheckUserStorageLimit
    \/ ApplyStorageQuotaPermission
    \/ ApplyGetQuotaStatus

QuotaSpec == QuotaInit /\ [][QuotaNext]_vars

(* ============================ properties =============================== *)
AllIdle == \A w \in Workers : pc[w] = "idle"

AfterGetOrCreate == {"name_update", "rev_number", "rev_file", "rev_insert",
                     "signal_quota", "signal_quota_save", "usage", "usage_save"}

InCreateFileDocument(w) ==
    loc[w].op = "create_file_document" /\ pc[w] \in AfterGetOrCreate

(* C1: in every reachable state, whatever the interleaving of the workers' *)
(* uploads, at most one document exists per (owner, url); the same url may *)
(* be held by documents of different owners.                               *)
C1_OneDocumentPerOwnerUrl ==
    \A d1, d2 \in docs : (d1.owner = d2.owner /\ d1.url = d2.url) => d1.id = d2.id

C1_Witness ==
    /\ \E d1, d2 \in docs : d1.url = d2.url /\ d1.owner # d2.owner
    /\ \E w \in Workers : pc[w] = "goc_reget"

(* C2: two workers that upload to the same (owner, url) while no document  *)
(* exists there both come out of get_or_create holding the one document of *)
(* that (owner, url); exactly one of them has created = TRUE, and no       *)
(* upload ends with the IntegrityError of the creation race.               *)
C2_CreationRaceHasOneWinner ==
    /\ \A w \in Workers : loc[w].result # "IntegrityError(document)"
    /\ \A w \in Workers : InCreateFileDocument(w) =>
          \E d \in docs : d.id = loc[w].doc /\ d.owner = loc[w].user /\ d.url = loc[w].url
    /\ \A w1, w2 \in Workers :
          ( /\ w1 # w2
            /\ InCreateFileDocument(w1) /\ InCreateFileDocument(w2)
            /\ loc[w1].user = loc[w2].user /\ loc[w1].url = loc[w2].url )
          => /\ loc[w1].doc = loc[w2].doc
             /\ ~(loc[w1].created /\ loc[w2].created)
             /\ (loc[w1].missed /\ loc[w2].missed) => (loc[w1].created \/ loc[w2].created)

C2_Witness ==
    \E w1, w2 \in Workers :
        /\ w1 # w2
        /\ InCreateFileDocument(w1) /\ InCreateFileDocument(w2)
        /\ loc[w1].user = loc[w2].user /\ loc[w1].url = loc[w2].url
        /\ loc[w1].missed /\ loc[w2].missed
        /\ loc[w1].created /\ ~loc[w2].created

(* C3: while revisions are only appended, the revision numbers of a        *)
(* document with N revisions are exactly 0 .. N-1.                         *)
C3_AppendOnlyNumbersAreDense ==
    \A d \in docs :
        {r.num : r \in RevsOf(revs, d.id)} = 0 .. (Cardinality(RevsOf(revs, d.id)) - 1)

C3_Witness ==
    \E d \in docs : Cardinality(RevsOf(revs, d.id)) >= 3

(* C5: no two stored revisions of one document carry the same              *)
(* revision_number, under any interleaving of uploads.                     *)
C5_RevisionNumbersDistinct ==
    \A r1, r2 \in revs : (r1.doc = r2.doc /\ r1.num = r2.num) => r1.id = r2.id

C5_Witness ==
    \E w \in Workers :
        /\ pc[w] = "rev_insert"
        /\ \E r \in revs : r.doc = loc[w].doc /\ r.num = loc[w].num

(* C6: concurrent uploads to the same (owner, url) all succeed; none fails *)
(* because another upload took the revision number it had computed.        *)
C6_ConcurrentUploadsAllSucceed ==
    \A w \in Workers : loc[w].result \notin {"IntegrityError(revision)", "UploadFailed"}

(* C7: once every running request of an owner has finished, storage_used   *)
(* is the sum of file_size over the owner's revisions, for every           *)
(* interleaving of the recompute and write steps.                          *)
C7_NoLostQuotaUpdate ==
    AllIdle => \A u \in Users : storage_used[u] = update_user_quota(docs, revs, u)

(* C4: a revision created in a document gets a number greater than the     *)
(* number of every revision that document ever had, also after deletions   *)
(* (among them the deletion of the highest-numbered revision).             *)
C4_RevisionNumberNeverReused ==
    \A a, b \in assigned : (a.doc = b.doc /\ a.rev < b.rev) => a.num < b.num

(* C8: between the requests of a sequential run of uploads, revision       *)
(* deletions, document deletions and bulk deletions, storage_used of every *)
(* user is the sum of file_size over the user's revisions, which is what   *)
(* both recomputations return.                                             *)
C8_StorageUsedIsReconciled ==
    AllIdle => \A u \in Users :
        /\ storage_used[u] = update_user_quota(docs, revs, u)
        /\ storage_used[u] = calculate_user_storage_usage(docs, revs, u)

C8_Witness ==
    /\ AllIdle
    /\ ops = MaxSeqOps
    /\ \E u \in Users : storage_used[u] > 0
    /\ Cardinality(assigned) > Cardinality(revs)

(* C9: every quota check admits an upload exactly when                     *)
(* used + size <= limit.                                                   *)
C9_AllChecksInclusive ==
    LET fits == q.used + q.size <= q.limit IN
    /\ qres.can_upload_file.done => qres.can_upload_file.ok = fits
    /\ qres.check_quota_available.done => qres.check_quota_available.ok = fits
    /\ qres.validate_user_storage_limit.done => qres.validate_user_storage_limit.ok = fits
    /\ qres.check_user_storage_limit.done => qres.check_user_storage_limit.ok = fits
    /\ qres.StorageQuotaPermission.done => qres.StorageQuotaPermission.ok = fits

(* C9 as amended: can_upload_file, check_quota_available,                  *)
(* validate_user_storage_limit and check_user_storage_limit admit exactly  *)
(* when used + size <= limit; StorageQuotaPermission does so for every     *)
(* size > 0 and admits every request whose file has size 0.                *)
C9_ChecksInclusiveForNonEmptyFile ==
    LET fits == q.used + q.size <= q.limit IN
    /\ qres.can_upload_file.done => qres.can_upload_file.ok = fits
    /\ qres.check_quota_available.done => qres.check_quota_available.ok = fits
    /\ qres.validate_user_storage_limit.done => qres.validate_user_storage_limit.ok = fits
    /\ qres.check_user_storage_limit.done => qres.check_user_storage_limit.ok = fits
    /\ qres.StorageQuotaPermission.done =>
          qres.StorageQuotaPermission.ok = (q.size = 0 \/ fits)

C9_Witness ==
    /\ q.used + q.size = q.limit
    /\ q.size > 0
    /\ qres.can_upload_file.done /\ qres.can_upload_file.ok
    /\ qres.check_quota_available.done /\ qres.check_quota_available.ok
    /\ qres.validate_user_storage_limit.done /\ qres.validate_user_storage_limit.ok
    /\ qres.check_user_storage_limit.done /\ qres.check_user_storage_limit.ok
    /\ qres.StorageQuotaPermission.done /\ qres.StorageQuotaPermission.ok

(* C10: an upload request (PUT or POST) carrying a file of size > 0 with   *)
(* used + size > limit is refused by the permission check: the request     *)
(* ends with QuotaExceeded and available = limit - used, and no document,  *)
(* revision, blob or storage_used value has changed.                       *)
OverQuota(w) ==
    /\ pc[w] = "permission"
    /\ loc[w].size > 0
    /\ storage_used[loc[w].user] + loc[w].size > storage_limit[loc[w].user]

C10_OverQuotaUploadRejectedUnwritten ==
    [][\A w \in Workers : OverQuota(w) =>
          /\ pc'[w] = "idle"
          /\ loc'[w].result = "QuotaExceeded"
          /\ loc'[w].avail = storage_limit[loc[w].user] - storage_used[loc[w].user]
          /\ UNCHANGED <<docs, revs, blobs, storage_used>>]_vars

C10_Witness ==
    \E w \in Workers, u \in Users :
        /\ pc[w] = "idle"
        /\ loc[w].result = "QuotaExceeded"
        /\ loc[w].avail = 1
        /\ storage_used[u] = Limit - 1
        /\ revs # {}

(* C11: when RevisionManager.cleanup_old_revisions returns for a document  *)
(* that had n revisions, with keep_count k >= 0, it has deleted exactly    *)
(* the max(0, n - k) lowest-numbered revisions, the min(n, k)              *)
(* highest-numbered ones are left, and it returns max(0, n - k).           *)
C11_RetentionKeepsHighest ==
    \A w \in Workers : pc[w] = "cleanup_return" =>
        LET had == loc[w].had
            n == Cardinality(had)
            k == loc[w].run.keep
            left == RevsOf(revs, loc[w].doc)
        IN /\ loc[w].count = IF n > k THEN n - k ELSE 0
           /\ left \subseteq had
           /\ Cardinality(left) = IF n > k THEN k ELSE n
           /\ \A a \in left, b \in had \ left : b.num < a.num

C11_Witness ==
    \E w \in Workers :
        /\ pc[w] = "cleanup_return"
        /\ Cardinality(loc[w].had) = MaxRevs
        /\ loc[w].run.keep = 1
        /\ loc[w].count = MaxRevs - 1
        /\ {r.num : r \in RevsOf(revs, loc[w].doc)} = {MaxRevs - 1}

(* C12: a retention run that directly follows a run on the same document   *)
(* (or owner) with the same keep_count deletes nothing and returns 0,      *)
(* whatever happened in the first run.                                     *)
RepeatedRun(w) ==
    /\ pc[w] # "idle"
    /\ loc[w].run.level # None
    /\ loc[w].prev.run = loc[w].run

DeletesNothing(w) ==
    /\ UNCHANGED <<revs, blobs>>
    /\ pc'[w] = "idle" => loc'[w].total = 0

C13_RetentionUpdatesStorageUsed ==
    \A w \in Workers :
        (pc[w] = "idle" /\ loc[w].result = "ok" /\ loc[w].run.level # None) =>
            storage_used[loc[w].run.user] = update_user_quota(docs, revs, loc[w].run.user)

(* C14: a document deletion (FileDetailView.delete, delete_file_document)  *)
(* ends with the document gone, none of its revision records left, no     *)
(* blob stored under the file name of any revision it had, and the         *)
(* owner's storage_used lower by the sum of the sizes of those revisions.  *)
DocumentDeleteOps == {"delete", "delete_file_document"}

C14_DocumentDeleteRemovesAll ==
    [][\A w \in Workers : (pc[w] = "usage_save" /\ loc[w].op \in DocumentDeleteOps) =>
          /\ pc'[w] = "idle"
          /\ loc'[w].result = "ok"
          /\ \A d \in docs' : d.id # loc[w].doc
          /\ \A r \in revs' : r.doc # loc[w].doc
          /\ \A r \in loc[w].had : r.file \notin blobs'
          /\ storage_used'[loc[w].user] = loc[w].used - SumSizes(loc[w].had)]_vars

C14_Witness ==
    \E w \in Workers :
        /\ pc[w] = "usage_save"
        /\ loc[w].op = "delete"
        /\ Cardinality(loc[w].had) >= 2
        /\ loc[w].sum = loc[w].used - SumSizes(loc[w].had)
        /\ \A d \in docs : d.id # loc[w].doc

(* C15: on every deletion path a revision record is removed only when its  *)
(* blob is gone (deleted before, or absent); when a blob deletion fails    *)
(* the record stays and the operation ends with the error instead of       *)
(* going on.                                                               *)
C15_BlobBeforeRecordOrError ==
    [][/\ \A r \in revs : (\A x \in revs' : x.id # r.id) => r.file \notin blobs'
       /\ \A w \in Workers : (~loc[w].failed /\ loc'[w].failed) =>
             /\ revs' = revs
             /\ pc'[w] = "idle"
             /\ loc'[w].result = "StorageError"]_vars

(* C16: an upload that fails after it has started leaves no blob it wrote  *)
(* in storage, no revision record of it, and storage_used as it was.       *)
UploadFailures == {"IntegrityError(revision)", "IntegrityError(document)", "UploadFailed"}

C16_FailedUploadLeavesNothing ==
    [][\A w \in Workers :
          (pc[w] # "idle" /\ pc'[w] = "idle" /\ loc'[w].result \in UploadFailures) =>
              /\ loc[w].file \notin blobs'
              /\ \A r \in revs' : r.file # loc[w].file
              /\ storage_used' = storage_used]_vars

(* C17: a POST with path U, display name N and a valid file that fits the  *)
(* quota succeeds and leaves a document of the caller at U named N with a  *)
(* new revision holding the uploaded file.                                 *)
PostEnds(w) ==
    /\ loc[w].op = "post"
    /\ pc[w] \notin {"idle", "permission", "post_validate"}
    /\ pc'[w] = "idle"

StoredUpload(w, d) ==
    \E r \in revs' : r.doc = d.id /\ r.size = loc[w].size /\ r.file \in blobs'

C17_PostStoresAtPathWithName ==
    [][\A w \in Workers :
          (PostEnds(w) /\ loc[w].req.url # None /\ loc[w].req.name # None) =>
              /\ loc'[w].result = "ok"
              /\ \E d \in docs' : /\ d.owner = loc[w].user
                                  /\ d.url = loc[w].req.url
                                  /\ d.name = loc[w].req.name
                                  /\ StoredUpload(w, d)]_vars

(* C18: a POST without path succeeds and stores the file in a document     *)
(* whose path comes from the file's name; a POST without display name      *)
(* gives the document the file's name as display name.                     *)
DerivedPath == "/f.txt"

C18_PostDefaultsFromFilename ==
    [][\A w \in Workers :
          (PostEnds(w) /\ (loc[w].req.url = None \/ loc[w].req.name = None)) =>
              /\ loc'[w].result = "ok"
              /\ \E d \in docs' :
                    /\ d.owner = loc[w].user
                    /\ d.url = IF loc[w].req.url = None THEN DerivedPath ELSE loc[w].req.url
                    /\ d.name = IF loc[w].req.name = None THEN Filename ELSE loc[w].req.name
                    /\ StoredUpload(w, d)]_vars

(* C19: an upload (create_file_document or PUT) whose lookup finds a       *)
(* document at (owner, path) ends with that one document at (owner, path), *)
(* created = FALSE, the supplied name as its name, every revision it had   *)
(* unchanged and exactly one revision more.                                *)
UploadOps == {"create_file_document", "put"}

C19_UploadToExistingDocument ==
    \A w \in Workers :
        (pc[w] = "usage_save" /\ loc[w].op \in UploadOps /\ ~loc[w].missed) =>
            /\ ~loc[w].created
            /\ \A d \in DocsAt(docs, loc[w].user, loc[w].req.url) :
                  /\ d.id = loc[w].doc
                  /\ loc[w].req.name # None => d.name = loc[w].req.name
            /\ Cardinality(DocsAt(docs, loc[w].user, loc[w].req.url)) = 1
            /\ loc[w].had \subseteq RevsOf(revs, loc[w].doc)
            /\ Cardinality(RevsOf(revs, loc[w].doc) \ loc[w].had) = 1

C19_Witness ==
    \E w \in Workers :
        /\ pc[w] = "usage_save"
        /\ loc[w].op = "create_file_document"
        /\ ~loc[w].missed
        /\ loc[w].name # None
        /\ loc[w].had # {}
        /\ \E d \in docs : d.id = loc[w].doc /\ d.name = loc[w].req.name

(* C20: a step of a request of user A leaves the documents, revisions,     *)
(* stored blobs and storage_used of every other user as they were, and a   *)
(* get, download, PUT or delete of a path at which A has no document ends  *)
(* with NotFound, also when another user has a document there.             *)
OwnedBy(ds, u) == {d \in ds : d.owner = u}

Acting(w) == pc'[w] # pc[w] \/ loc'[w] # loc[w]

ActingUser(w) == IF pc[w] = "idle" THEN loc'[w].user ELSE loc[w].user

Untouched(b) ==
    /\ OwnedBy(docs', b) = OwnedBy(docs, b)
    /\ RevsOfUser(docs', revs', b) = RevsOfUser(docs, revs, b)
    /\ {r.file : r \in RevsOfUser(docs, revs, b)} \cap blobs'
         = {r.file : r \in RevsOfUser(docs, revs, b)} \cap blobs
    /\ storage_used'[b] = storage_used[b]

LookupPcs == {"get_object", "delete_get", "put_get"}

C20_OwnerIsolation ==
    [][\A w \in Workers : Acting(w) =>
          /\ \A b \in Users \ {ActingUser(w)} : Untouched(b)
          /\ (pc[w] \in LookupPcs /\ DocsAt(docs, loc[w].user, loc[w].url) = {}) =>
                (pc'[w] = "idle" /\ loc'[w].result = "NotFound")]_vars

C20_Witness ==
    \E w \in Workers, d \in docs :
        /\ pc[w] = "delete_get"
        /\ d.owner # loc[w].user
        /\ d.url = loc[w].url
        /\ DocsAt(docs, loc[w].user, loc[w].url) = {}
        /\ RevsOf(revs, d.id) # {}
        /\ storage_used[d.owner] > 0

(* C21: a bulk_delete request ends with no document of the caller left at  *)
(* any listed path and with deleted_count + number of errors = number of   *)
(* listed paths.                                                           *)
BulkEnds(w) == loc[w].op = "bulk_delete" /\ pc[w] # "idle" /\ pc'[w] = "idle"

C21_BulkDeleteDeletesListed ==
    [][\A w \in Workers : BulkEnds(w) =>
          /\ \A i \in 1..Len(loc[w].listed) : DocsAt(docs', loc[w].user, loc[w].listed[i]) = {}
          /\ loc[w].count + loc[w].errors = Len(loc[w].listed)]_vars

(* C24: a download answers with the bytes uploaded when the revision asked *)
(* for was created (the highest-numbered revision when none is asked for), *)
(* and with a 404 when the document has no such revision.                  *)
NotFoundResults == {"NotFound", "RevisionNotFound", "FileDataNotFound"}

Asked(w) ==
    LET d == CHOOSE x \in DocsAt(docs, loc[w].user, loc[w].url) : TRUE
        rs == {r \in revs : r.doc = d.id} IN
    IF loc[w].want # NoRevision THEN {r \in rs : r.num = loc[w].want}
    ELSE {r \in rs : \A o \in rs : o.num <= r.num}

C27_SaveKeepsRevisionNumber ==
    [][\A r \in revs, x \in revs' : x.id = r.id => x.num = r.num]_vars

(* C30: the available bytes that check_quota_available and                 *)
(* check_user_storage_limit report when they refuse are never negative and *)
(* equal the available bytes of get_quota_status, max(0, limit - used).    *)
C30_AvailableNeverNegative ==
    \A f \in {"check_quota_available", "check_user_storage_limit"} :
        (qres[f].done /\ ~qres[f].ok) =>
            /\ qres[f].available >= 0
            /\ qres.get_quota_status.done =>
                   qres[f].available = qres.get_quota_status.available

(* C26: the file_size recorded in every revision whose file is stored is   *)
(* the length of the stored file.                                          *)
C26_FileSizeIsStoredLength ==
    \A r \in revs : r.file \in blobs => r.size = StoredLength(contents, r.file)

(* C23: while the two workers upload to different documents, every INSERT  *)
(* of a revision succeeds and its number is 0 for a document without       *)
(* revisions, else 1 + the highest number of that document.                *)
C23_ParallelDocumentsNumberedIndependently ==
    [][\A w \in Workers : (pc[w] = "rev_insert" /\ pc'[w] # "rev_insert") =>
          LET own == {r \in revs : r.doc = loc[w].doc} IN
          /\ pc'[w] = "signal_quota"
          /\ \E x \in revs' \ revs :
                /\ x.doc = loc[w].doc
                /\ x.num = IF own = {} THEN 0 ELSE Max({r.num : r \in own}) + 1]_vars

C23_Witness ==
    /\ pc["w1"] = "rev_insert"
    /\ pc["w2"] = "rev_insert"
    /\ loc["w1"].doc # loc["w2"].doc
    /\ loc["w1"].user = loc["w2"].user
    /\ \E r \in revs : r.doc = loc["w1"].doc
    /\ \A r \in revs : r.doc # loc["w2"].doc

(* C22: the two PUT uploads start from storage_used <= storage_limit (the  *)
(* one-byte uploads before them stay below the limit); once both have      *)
(* ended, storage_used is above the limit by at most the size of one file. *)
C22_SoftLimitBound ==
    (AllIdle /\ ops = MaxSoftOps) => storage_used["alice"] <= Limit + MaxSize

(* C25: between operations, also after a deletion or a retention run that  *)
(* failed part-way, every revision record has a file and that file is in   *)
(* storage.                                                                *)
C25_RecordHasStoredBlob ==
    AllIdle => \A r \in revs : r.file # NoFile /\ r.file \in blobs

(* C28 as stated: when a retention run with keep_count >= 1 has gone       *)
(* through a document, the revision that was the document's latest when    *)
(* the run looked at it first is still there.                              *)
Highest(rs) == {r \in rs : \A o \in rs : o.num <= r.num}

C28_LatestBeforeRunSurvives ==
    \A w \in Workers :
        (pc[w] = "cleanup_return" /\ loc[w].run.keep >= 1) =>
            \A r \in Highest(loc[w].had) : \E x \in revs : x.id = r.id

(* C28, amended: no step of retention runs with keep_count >= 1 and of     *)
(* uploads, however interleaved, removes the revision that has the highest *)
(* number of its document at that moment; so a document that has a         *)
(* revision keeps one.                                                     *)
C28_HighestIsNeverDeleted ==
    [][\A d \in docs :
          /\ \A r \in Highest({x \in revs : x.doc = d.id}) : r \in revs'
          /\ (\E r \in revs : r.doc = d.id) => (\E r \in revs' : r.doc = d.id)]_vars

C28_Witness ==
    \E w \in Workers :
        /\ pc[w] = "cleanup_return"
        /\ loc[w].run.keep >= 1
        /\ loc[w].count >= 1
        /\ \E r \in Highest(loc[w].had) : \A x \in revs : x.id # r.id
        /\ \E x \in revs : x.doc = loc[w].doc

(* C29: deleted_count grows by one only in a step that removes one         *)
(* revision record, so that the counts returned by interleaved runs add up *)
(* to the number of records that disappeared.                              *)
C29_CountIsRecordsRemoved ==
    [][\A w \in Workers :
          (pc[w] = "cleanup_row" /\ loc'[w].count = loc[w].count + 1) =>
              Cardinality(revs') = Cardinality(revs) - 1]_vars

====
